---- MODULE Spec2Model ----
(***************************************************************************)
(* VERDICOM PRO (src/verdicom_pro.py): the pixel pipeline of the viewer.   *)
(*                                                                         *)
(* Numbers.  Stored samples, RescaleSlope and RescaleIntercept are         *)
(* integers here, so calibrated samples are integers.  Window centers and  *)
(* widths are exact rationals held as integers counting 1/Q of a unit      *)
(* ("ticks", Q = 200): the percentiles of integer samples are multiples of *)
(* 1/100 and their mid-point is a multiple of 1/200, so the fallback       *)
(* window is exact in ticks.  Floating-point rounding error is not         *)
(* modelled; NaN appears only as the 0/0 of a zero-width window.           *)
(***************************************************************************)
EXTENDS Integers, Sequences, FiniteSets, TLC

VARIABLES
    nan8,        \* what this build's float -> uint8 cast makes of NaN
    uploaded,    \* st.file_uploader: the file in the uploader, or NoFile
    wcWidget,    \* widget state of the "Window Center" slider
    wwWidget,    \* widget state of the "Window Width" slider
    invert,      \* widget state of the "Invert scale" checkbox
    clahe_opt,   \* widget state of the "adaptive equalization" checkbox
    run,         \* what the last execution of main() computed and showed
    call,        \* unit level: the function last called directly
    args,        \* unit level: its arguments
    ret          \* unit level: what it returned or raised

vars == <<nan8, uploaded, wcWidget, wwWidget, invert, clahe_opt, run, call, args, ret>>

session == <<uploaded, wcWidget, wwWidget, invert, clahe_opt, run>>

unit == <<call, args, ret>>

----------------------------------------------------------------------------
\* Bounds of the model.

\* Longest pixel array of an enumerated dataset.
MaxLen == 2

\* Largest stored (raw) sample of an enumerated dataset.
MaxRaw == 1

\* Ticks per unit: window parameters are multiples of 1/200.
Q == 2 * 100

----------------------------------------------------------------------------
\* Arithmetic helpers.

Min2(a, b) == IF a <= b THEN a ELSE b

Max2(a, b) == IF a >= b THEN a ELSE b

Range(s) == {s[i] : i \in DOMAIN s}

RECURSIVE Product(_)
Product(s) == IF s = <<>> THEN 1 ELSE Head(s) * Product(Tail(s))

\* The k-th largest element (k from 1) of a non-empty sequence.
KthLargest(s, k) ==
    0 - (CHOOSE u \in {0 - s[i] : i \in DOMAIN s} :
            /\ Cardinality({i \in DOMAIN s : 0 - s[i] < u}) < k
            /\ k <= Cardinality({i \in DOMAIN s : 0 - s[i] <= u}))

\* The k-th smallest element (k from 1) of a non-empty sequence: the element
\* at index k - 1 of the sorted sequence, counted from the nearer end.
KthSmallest(s, k) ==
    IF 2 * k <= Len(s) + 1
    THEN CHOOSE v \in Range(s) :
             /\ Cardinality({i \in DOMAIN s : s[i] < v}) < k
             /\ k <= Cardinality({i \in DOMAIN s : s[i] <= v})
    ELSE KthLargest(s, Len(s) + 1 - k)

\* np.min and np.max over all elements (the caller has a non-empty array).
np_min(px) == CHOOSE v \in Range(px) : \A w \in Range(px) : v <= w

np_max(px) == KthLargest(px, 1)

\* A percentile that takes the nearest sample instead of interpolating.
np_percentile_nearest(px, q) ==
    LET n == Len(px)
        pos == q * (n - 1)
        i == (pos + 50) \div 100
    IN  100 * KthSmallest(px, i + 1)

\* np.percentile(arr, q), default method "linear", over the flattened array:
\* the value at virtual index q/100 * (n-1) of the sorted samples, linearly
\* interpolated between its neighbours.  The result counts hundredths.
np_percentile(px, q) ==
    LET n == Len(px)
        pos == q * (n - 1)
        i == pos \div 100
        f == pos % 100
        lo == KthSmallest(px, i + 1)
        hi == KthSmallest(px, Min2(i + 2, n))
    IN  100 * lo + f * (hi - lo)

\* A rounding that truncates.
np_round_trunc(num, den) == num \div den

\* np.round of the rational num/den (den > 0): to the nearest integer, a
\* tie going to the even neighbour.
np_round(num, den) ==
    LET q == num \div den
        r == num % den
    IN  IF 2 * r < den THEN q
        ELSE IF 2 * r > den THEN q + 1
        ELSE IF q % 2 = 0 THEN q ELSE q + 1

\* np.uint8 of an integer-valued float: the value modulo 2^8.
np_uint8(v) == v % 256

\* A clip that lets every sample through.
np_clip_none(x, lower, upper) == x

\* np.clip(x, lower, upper) = minimum(maximum(x, lower), upper).
np_clip(x, lower, upper) == Min2(Max2(x, lower), upper)

----------------------------------------------------------------------------
\* Datasets, as pydicom hands them over.

\* An attribute of a dataset: absent, a scalar, or a MultiValue.
Absent == [present |-> FALSE, multi |-> FALSE, val |-> 0, vals |-> <<>>]

Scalar(x) == [present |-> TRUE, multi |-> FALSE, val |-> x, vals |-> <<>>]

MultiValue(s) == [present |-> TRUE, multi |-> TRUE, val |-> 0, vals |-> s]

\* An array: its shape and its elements in C order.
Array(shape, px) == [shape |-> shape, px |-> px]

EmptyArr == Array(<<0, 0>>, <<>>)

ndim(a) == Len(a.shape)

\* getattr(ds, name, default) followed by float(): the attribute or the default.
getattr_float(attr, default) == IF attr.present THEN attr.val ELSE default

\* get_pixel_array: the stored samples as floats, times slope plus intercept.
get_pixel_array(ds) ==
    LET intercept == getattr_float(ds.RescaleIntercept, 0)
        slope == getattr_float(ds.RescaleSlope, 1)
    IN  Array(ds.pixel_array.shape,
              [i \in DOMAIN ds.pixel_array.px |-> ds.pixel_array.px[i] * slope + intercept])

\* A default_window whose fallback leaves out the floor of 1.0 on the width.
default_window_range(ds) ==
    IF ds.WindowCenter.present /\ ds.WindowWidth.present
    THEN <<IF ds.WindowCenter.multi THEN ds.WindowCenter.vals[1] ELSE ds.WindowCenter.val,
           IF ds.WindowWidth.multi THEN ds.WindowWidth.vals[1] ELSE ds.WindowWidth.val>>
    ELSE LET arr == get_pixel_array(ds)
             p1 == np_percentile(arr.px, 1)
             p99 == np_percentile(arr.px, 99)
         IN  <<p99 + p1, 2 * (p99 - p1)>>

\* default_window: <<center, width>> in ticks.  Explicit WindowCenter and
\* WindowWidth are returned as they are (the first value of a MultiValue);
\* otherwise center = (p99 + p1) / 2 and width = max(1.0, p99 - p1).
default_window(ds) ==
    IF ds.WindowCenter.present /\ ds.WindowWidth.present
    THEN LET wc == IF ds.WindowCenter.multi
                   THEN ds.WindowCenter.vals[1]      \* float(wc[0])
                   ELSE ds.WindowCenter.val          \* float(wc)
             ww == IF ds.WindowWidth.multi
                   THEN ds.WindowWidth.vals[1]       \* float(ww[0])
                   ELSE ds.WindowWidth.val           \* float(ww)
         IN  <<wc, ww>>
    ELSE LET arr == get_pixel_array(ds)
             p1 == np_percentile(arr.px, 1)
             p99 == np_percentile(arr.px, 99)
             center == p99 + p1                  \* (p99 + p1) / 2.0, in ticks
             width == Max2(Q, 2 * (p99 - p1))    \* max(1.0, p99 - p1), in ticks
         IN  <<center, width>>

\* The intensity of one sample x under the window: lower, upper and the
\* sample are doubled ticks, so that width / 2 stays an integer.
\* upper - lower is twice the width; with width = 0 the quotient is 0/0 = NaN
\* (numpy warns, it does not raise) and the cast of NaN is what the build
\* makes of it, the same for every element.
WindowSample(x, center, width) ==
    LET lower == 2 * center - width
        upper == 2 * center + width
        img_w == np_clip(2 * Q * x, lower, upper)
        num == 255 * (img_w - lower)
        den == upper - lower
    IN  IF den = 0 THEN nan8
        ELSE IF den > 0 THEN np_uint8(np_round(num, den))
        ELSE np_uint8(np_round(-num, -den))

\* apply_window: every sample mapped through the window, as uint8.
apply_window(img, center, width) ==
    Array(img.shape, [i \in DOMAIN img.px |-> WindowSample(img.px[i], center, width)])

\* An inversion that subtracts from 256 (the int promotes the array past uint8).
InvertRaster_256(img_8) ==
    Array(img_8.shape, [i \in DOMAIN img_8.px |-> 256 - img_8.px[i]])

\* img_8 = 255 - img_8, in uint8 arithmetic.
InvertRaster(img_8) ==
    Array(img_8.shape, [i \in DOMAIN img_8.px |-> (255 - img_8.px[i]) % 256])

\* A rendering that inverts the samples before windowing them.
Render_invert_first(arr, center, width, inv) ==
    IF inv
    THEN apply_window(Array(arr.shape, [i \in DOMAIN arr.px |-> 0 - arr.px[i]]), center, width)
    ELSE apply_window(arr, center, width)

\* main, "Aplicar windowing": window, then invert the 8-bit raster if asked.
Render(arr, center, width, inv) ==
    IF inv
    THEN InvertRaster(apply_window(arr, center, width))
    ELSE apply_window(arr, center, width)

----------------------------------------------------------------------------
\* The raster codec.

\* A PIL image, or the exception that took its place.
PilImage(mode, bands, px) == [status |-> "ok", mode |-> mode, bands |-> bands, px |-> px]

PilError(exc) == [status |-> exc, mode |-> "", bands |-> 0, px |-> <<>>]

NoImage == PilError("none")

\* np.squeeze: the axes of length one removed.
np_squeeze(a) == Array(SelectSeq(a.shape, LAMBDA d : d # 1), a.px)

\* Image.fromarray without a mode, of a uint8 array: the mode is looked up
\* under the trailing axes shape[2:] (none: L, 2: LA, 3: RGB, 4: RGBA,
\* anything else: TypeError); a 0-d array has no shape[0] (IndexError).
Image_fromarray(a) ==
    IF ndim(a) <= 2
    THEN IF ndim(a) = 0 THEN PilError("IndexError") ELSE PilImage("L", 1, a.px)
    ELSE IF ndim(a) = 3 /\ a.shape[3] = 2 THEN PilImage("LA", 2, a.px)
    ELSE IF ndim(a) = 3 /\ a.shape[3] = 3 THEN PilImage("RGB", 3, a.px)
    ELSE IF ndim(a) = 3 /\ a.shape[3] = 4 THEN PilImage("RGBA", 4, a.px)
    ELSE PilError("TypeError")

\* to_pil: (H, W) as mode L, (H, W, 3) as RGB; anything else is squeezed,
\* clipped to [0, 255] and handed to Image.fromarray as it is.
to_pil(img_array) ==
    IF ndim(img_array) = 2
    THEN PilImage("L", 1, img_array.px)
    ELSE IF ndim(img_array) = 3 /\ img_array.shape[3] = 3
    THEN Image_fromarray(img_array)
    ELSE LET sq == np_squeeze(img_array)
             arr == Array(sq.shape, [i \in DOMAIN sq.px |-> np_uint8(np_clip(sq.px[i], 0, 255))])
         IN  Image_fromarray(arr)

\* The pixels of band b (from 0) of an image whose bands are interleaved.
BandIdx(pil, b) == {i \in DOMAIN pil.px : (i - 1) % pil.bands = b}

\* ImageOps.equalize, the step of band b: (pixels - pixels of the brightest
\* occupied bin) // 255, and no step at all with a single occupied bin.
EqualizeStep(pil, b) ==
    LET idx == BandIdx(pil, b)
        levels == {pil.px[i] : i \in idx}
        top == 0 - (CHOOSE u \in {0 - v : v \in levels} : \A w \in levels : 0 - u >= w)
        last == Cardinality({i \in idx : pil.px[i] = top})
    IN  IF Cardinality(levels) <= 1 THEN 0 ELSE (Cardinality(idx) - last) \div 255

\* ImageOps.equalize: a band without a step is left as it is, otherwise its
\* level v becomes (step // 2 + pixels below v) // step.  Only modes L and
\* RGB are supported; main swallows the exception of the others and keeps
\* the image.
ImageOps_equalize(pil) ==
    IF pil.mode \notin {"L", "RGB"} THEN pil
    ELSE LET step == [b \in 0..(pil.bands - 1) |-> EqualizeStep(pil, b)]
             lut(b, v) ==
                 IF step[b] = 0 THEN v
                 ELSE (step[b] \div 2
                       + Cardinality({i \in BandIdx(pil, b) : pil.px[i] < v})) \div step[b]
         IN  [pil EXCEPT !.px = [i \in DOMAIN pil.px |-> lut((i - 1) % pil.bands, pil.px[i])]]

----------------------------------------------------------------------------
\* main(): one execution of the script, from the widget states to the view.

NoFile == [readable |-> FALSE, pixel_ok |-> FALSE, pixel_array |-> EmptyArr,
           RescaleSlope |-> Absent, RescaleIntercept |-> Absent,
           WindowCenter |-> Absent, WindowWidth |-> Absent, name |-> "none"]

Dataset(name, pixel_array, slope, intercept, wc, ww) ==
    [readable |-> TRUE, pixel_ok |-> TRUE, pixel_array |-> pixel_array,
     RescaleSlope |-> slope, RescaleIntercept |-> intercept,
     WindowCenter |-> wc, WindowWidth |-> ww, name |-> name]

\* The bounds main gives the two sliders: [min, max] of the samples for the
\* center, [1.0, max - min + 1.0] for the width (ticks).
SliderBounds(arr) ==
    [center_min |-> Q * np_min(arr.px),
     center_max |-> Q * np_max(arr.px),
     width_min |-> Q,
     width_max |-> Q * (np_max(arr.px) - np_min(arr.px) + 1)]

NoBounds == [center_min |-> 0, center_max |-> 0, width_min |-> 0, width_max |-> 0]

\* st.slider: the widget's state once the user has set it, else value=.
slider(state, value) == IF state = <<>> THEN value ELSE state[1]

Aborted(status) ==
    [status |-> status, arr |-> EmptyArr, bounds |-> NoBounds,
     default_center |-> 0, default_width |-> 0,
     wc_slider |-> 0, ww_slider |-> 0, img_8 |-> EmptyArr, pil_img |-> NoImage]

\* main.  No file: the instructions.  load_dicom or get_pixel_array raising:
\* st.error and return.  An empty pixel array: np.percentile / np.min raise
\* before the sliders exist, and nothing catches it.  Otherwise the defaults,
\* the sliders, the reset button, the windowing, the inversion, the image and
\* the equalization.  An exception of to_pil is not caught either.
main(ds, wcState, wwState, inv, clahe, reset) ==
    IF ds = NoFile THEN Aborted("no_file")
    ELSE IF ~ds.readable THEN Aborted("read_error")
    ELSE IF ~ds.pixel_ok THEN Aborted("pixel_error")
    ELSE LET arr == get_pixel_array(ds) IN
    IF arr.px = <<>> THEN Aborted("ValueError")      \* np.min of a zero-size array
    ELSE LET dw == default_window(ds)
             default_center == dw[1]
             default_width == dw[2]
             wc_slider == IF reset THEN default_center ELSE slider(wcState, default_center)
             ww_slider == IF reset THEN default_width ELSE slider(wwState, default_width)
             img_8 == Render(arr, wc_slider, ww_slider, inv)
             pil == to_pil(img_8)
         IN  [status |-> IF pil.status = "ok" THEN "shown" ELSE pil.status,
              arr |-> arr, bounds |-> SliderBounds(arr),
              default_center |-> default_center, default_width |-> default_width,
              wc_slider |-> wc_slider, ww_slider |-> ww_slider,
              img_8 |-> img_8,
              pil_img |-> IF clahe /\ pil.status = "ok" THEN ImageOps_equalize(pil) ELSE pil]

----------------------------------------------------------------------------
\* The files a user may upload.

\* Single-row images of up to MaxLen stored samples in 0..MaxRaw.
PixelArrays ==
    UNION {{Array(<<1, n>>, px) : px \in [1..n -> 0..MaxRaw]} : n \in 0..MaxLen}

\* RescaleSlope / RescaleIntercept: both absent, or slope 2 and intercept -1.
Calibrations == {<<Absent, Absent>>, <<Scalar(2), Scalar(-1)>>}

\* WindowCenter / WindowWidth: absent, one of them alone, scalars, or
\* MultiValues (ticks).  Widths below 1.0 occur in files: nothing validates
\* the attribute on the way in.
WindowTags ==
    {<<Absent, Absent>>, <<Scalar(Q), Absent>>,
     <<MultiValue(<<Q, 4 * Q>>), MultiValue(<<Q \div 2, 2 * Q>>)>>}
    \cup {<<Scalar(c), Scalar(w)>> : c \in {Q, 4 * Q}, w \in {0, 2 * Q}}

\* The soft-tissue window on samples 0, 40 and 80.
SoftTissue ==
    Dataset("soft", Array(<<1, 3>>, <<0, 40, 80>>), Absent, Absent, Scalar(40 * Q), Scalar(80 * Q))

\* The samples 0..99, one each, without window metadata.
Ramp ==
    Dataset("ramp", Array(<<10, 10>>, [i \in 1..100 |-> i - 1]), Absent, Absent, Absent, Absent)

\* A file dcmread cannot read, and one whose pixel data cannot be decoded.
Unreadable == [NoFile EXCEPT !.name = "unreadable"]

NoPixels == [NoFile EXCEPT !.readable = TRUE, !.name = "nopixels"]

Datasets ==
    {Dataset("enum", a, cal[1], cal[2], win[1], win[2]) :
        a \in PixelArrays, cal \in Calibrations, win \in WindowTags}
    \cup {SoftTissue, Ramp, Unreadable, NoPixels}

\* What a build's cast of NaN to uint8 may give: C leaves the conversion
\* undefined; a truncating conversion leaves 0, an all-ones or saturating
\* one leaves 255.
NaNCast == {0, 255}

----------------------------------------------------------------------------
\* The viewer session: every interaction re-executes main().

NoCall == [status |-> "none", value |-> EmptyArr, image |-> NoImage]

Init ==
    /\ nan8 \in NaNCast
    /\ uploaded = NoFile
    /\ wcWidget = <<>>
    /\ wwWidget = <<>>
    /\ invert = FALSE
    /\ clahe_opt = FALSE
    /\ run = main(NoFile, <<>>, <<>>, FALSE, FALSE, FALSE)
    /\ call = "none"
    /\ args = [img |-> EmptyArr, center |-> 0, width |-> 0]
    /\ ret = NoCall

\* The widgets main reached in the last run keep their state.
Rendered == run.status = "shown"

\* A file is put into the empty uploader: every widget is new.
Upload(ds) ==
    /\ uploaded = NoFile
    /\ uploaded' = ds
    /\ run' = main(ds, <<>>, <<>>, FALSE, FALSE, FALSE)
    /\ wcWidget' = <<>>
    /\ wwWidget' = <<>>
    /\ invert' = FALSE
    /\ clahe_opt' = FALSE
    /\ UNCHANGED <<nan8, unit>>

\* The file is removed: main returns before any control is drawn.
RemoveFile ==
    /\ uploaded # NoFile
    /\ uploaded' = NoFile
    /\ run' = main(NoFile, <<>>, <<>>, FALSE, FALSE, FALSE)
    /\ wcWidget' = <<>>
    /\ wwWidget' = <<>>
    /\ invert' = FALSE
    /\ clahe_opt' = FALSE
    /\ UNCHANGED <<nan8, unit>>

\* The positions the model lets the user drag a slider to: the two ends of
\* its range.
CenterStops == {run.bounds.center_min, run.bounds.center_max}

WidthStops == {run.bounds.width_min, run.bounds.width_max}

\* The user drags the center slider to an end of its range.
MoveCenter(v) ==
    /\ Rendered
    /\ wcWidget' = <<v>>
    /\ run' = main(uploaded, <<v>>, wwWidget, invert, clahe_opt, FALSE)
    /\ UNCHANGED <<nan8, uploaded, wwWidget, invert, clahe_opt, unit>>

\* The user drags the width slider to an end of its range.
MoveWidth(v) ==
    /\ Rendered
    /\ wwWidget' = <<v>>
    /\ run' = main(uploaded, wcWidget, <<v>>, invert, clahe_opt, FALSE)
    /\ UNCHANGED <<nan8, uploaded, wcWidget, invert, clahe_opt, unit>>

ToggleInvert ==
    /\ Rendered
    /\ invert' = ~invert
    /\ run' = main(uploaded, wcWidget, wwWidget, ~invert, clahe_opt, FALSE)
    /\ UNCHANGED <<nan8, uploaded, wcWidget, wwWidget, clahe_opt, unit>>

ToggleClahe ==
    /\ Rendered
    /\ clahe_opt' = ~clahe_opt
    /\ run' = main(uploaded, wcWidget, wwWidget, invert, ~clahe_opt, FALSE)
    /\ UNCHANGED <<nan8, uploaded, wcWidget, wwWidget, invert, unit>>

\* "Reset WC/WW to DICOM values": this run uses the defaults; the sliders
\* keep their state.
ClickReset ==
    /\ Rendered
    /\ run' = main(uploaded, wcWidget, wwWidget, invert, clahe_opt, TRUE)
    /\ UNCHANGED <<nan8, uploaded, wcWidget, wwWidget, invert, clahe_opt, unit>>

\* st.file_uploader takes one file, whichever the user picks.
ChooseFile ==
    /\ uploaded = NoFile
    /\ \E ds \in Datasets : Upload(ds)

Next ==
    \/ ChooseFile
    \/ RemoveFile
    \/ \E v \in CenterStops : MoveCenter(v)
    \/ \E v \in WidthStops : MoveWidth(v)
    \/ ToggleInvert
    \/ ToggleClahe
    \/ ClickReset

Spec == Init /\ [][Next]_vars

----------------------------------------------------------------------------
\* Unit level: the functions called directly, one call at a time.

\* The windows a direct call of apply_window is given (ticks).
UnitCenters == {0, Q, 40 * Q}

UnitWidths == {0 - 2 * Q, 0, Q, 2 * Q, 80 * Q}

\* The shapes a direct call of to_pil is given: up to four axes of 1 to 5.
UnitShapes == UNION {[1..n -> 1..5] : n \in 2..4}

Idle == call = "none"

\* apply_window has no raise of its own, and numpy's float division only
\* warns: the call returns whatever the array holds.
CallApplyWindow(img, center, width) ==
    /\ Idle
    /\ call' = "apply_window"
    /\ args' = [img |-> img, center |-> center, width |-> width]
    /\ ret' = [status |-> "ok", value |-> apply_window(img, center, width), image |-> NoImage]
    /\ UNCHANGED <<nan8, session>>

\* to_pil on a uint8 raster of the given shape (its elements do not matter
\* to the outcome: they are all 0 here).
CallToPil(shape) ==
    /\ Idle
    /\ call' = "to_pil"
    /\ args' = [img |-> Array(shape, [i \in 1..Product(shape) |-> 0]), center |-> 0, width |-> 0]
    /\ LET pil == to_pil(args'.img)
       IN  ret' = [status |-> pil.status, value |-> EmptyArr, image |-> pil]
    /\ UNCHANGED <<nan8, session>>

\* The call is over; the next one starts afresh.
Return ==
    /\ ~Idle
    /\ call' = "none"
    /\ args' = [img |-> EmptyArr, center |-> 0, width |-> 0]
    /\ ret' = NoCall
    /\ UNCHANGED <<nan8, session>>

NextUnit ==
    \/ \E img \in PixelArrays, c \in UnitCenters, w \in UnitWidths : CallApplyWindow(img, c, w)
    \/ \E shape \in UnitShapes : CallToPil(shape)
    \/ Return

SpecUnit == Init /\ [][NextUnit]_vars

----------------------------------------------------------------------------
\* Properties.

Shown == run.status = "shown"

\* default_window took the percentile fallback for the uploaded file.
Fallback == ~(uploaded.WindowCenter.present /\ uploaded.WindowWidth.present)

\* The raster apply_window returns for the last run's samples and window.
Windowed == apply_window(run.arr, run.wc_slider, run.ww_slider)

\* The sliders of the last run stand at the defaults.
AtDefaults == run.wc_slider = run.default_center /\ run.ww_slider = run.default_width

\* All samples of the last run are equal.
Flat == \A i, j \in DOMAIN run.arr.px : run.arr.px[i] = run.arr.px[j]

\* C1: with a window of width >= 1, every element of the raster apply_window
\* returns, and of the raster main shows after the optional inversion, lies
\* in [0, 255].
C1_RangeInvariant ==
    (Shown /\ run.ww_slider >= Q) =>
        /\ \A i \in DOMAIN Windowed.px : Windowed.px[i] \in 0..255
        /\ \A i \in DOMAIN run.img_8.px : run.img_8.px[i] \in 0..255
        /\ DOMAIN run.img_8.px = DOMAIN run.arr.px

C1_Witness ==
    /\ Shown
    /\ invert
    /\ run.ww_slider >= Q
    /\ \E i, j \in DOMAIN run.img_8.px : run.img_8.px[i] = 255 /\ run.img_8.px[j] \in 1..254

\* C2: apply_window gives each sample the integer nearest to
\* 255 * (clip(x, lower, upper) - lower) / (upper - lower); with center 40
\* and width 80 the samples 0, 40 and 80 map to 0, 128 and 255.
C2_WindowFormula ==
    (Shown /\ ~invert /\ run.ww_slider > 0) =>
        LET lower == 2 * run.wc_slider - run.ww_slider
            upper == 2 * run.wc_slider + run.ww_slider
        IN  /\ \A i \in DOMAIN run.arr.px :
                LET x == 2 * Q * run.arr.px[i]
                    clipped == IF x < lower THEN lower ELSE IF x > upper THEN upper ELSE x
                    exact == 255 * (clipped - lower)      \* times (upper - lower)
                    got == run.img_8.px[i] * (upper - lower)
                IN  /\ 2 * (got - exact) <= upper - lower
                    /\ 2 * (exact - got) <= upper - lower
            /\ (run.wc_slider = 40 * Q /\ run.ww_slider = 80 * Q) =>
                \A i \in DOMAIN run.arr.px :
                    /\ run.arr.px[i] = 40 => run.img_8.px[i] = 128
                    /\ run.arr.px[i] = 0 => run.img_8.px[i] = 0
                    /\ run.arr.px[i] = 80 => run.img_8.px[i] = 255

C2_Witness ==
    /\ Shown
    /\ ~invert
    /\ run.wc_slider = 40 * Q
    /\ run.ww_slider = 80 * Q
    /\ run.arr.px = <<0, 40, 80>>
    /\ run.img_8.px = <<0, 128, 255>>

\* C3: for every dataset, with explicit window metadata or without, the
\* width default_window returns is at least 1.0, so that upper > lower in
\* apply_window.
C3_WidthFloor ==
    Shown =>
        /\ run.default_width >= Q
        /\ 2 * run.default_center + run.default_width > 2 * run.default_center - run.default_width

\* C4: with samples of zero variance default_window returns a width >= 1.0
\* (on the fallback path center = the constant and width = 1.0 exactly), and
\* apply_window with the returned parameters divides by upper - lower # 0.
C4_FlatImage ==
    (Shown /\ Flat) =>
        /\ run.default_width >= Q
        /\ Fallback => (run.default_center = Q * run.arr.px[1] /\ run.default_width = Q)
        /\ (2 * run.default_center + run.default_width)
               - (2 * run.default_center - run.default_width) # 0

\* C5: with equalization off, the image shown with invert set is 255 minus
\* the quantized raster of the same samples and window, element by element,
\* the image shown without invert is that raster, and inverting twice gives
\* the raster back.
C5_InvertAfterQuantize ==
    (Shown /\ ~clahe_opt) =>
        /\ DOMAIN run.pil_img.px = DOMAIN Windowed.px
        /\ \A i \in DOMAIN Windowed.px :
               run.pil_img.px[i] = IF invert THEN 255 - Windowed.px[i] ELSE Windowed.px[i]
        /\ InvertRaster(InvertRaster(Windowed)) = Windowed

C5_Witness ==
    /\ Shown
    /\ ~clahe_opt
    /\ invert
    /\ \E i, j \in DOMAIN run.pil_img.px :
           run.pil_img.px[i] \in 1..254 /\ run.pil_img.px[j] = 255

\* C6: under a fixed window a sample a <= b gets an intensity no greater
\* than that of b, and no smaller with invert set.
C6_Monotone ==
    Shown =>
        \A i, j \in DOMAIN run.arr.px :
            run.arr.px[i] <= run.arr.px[j] =>
                IF invert
                THEN run.img_8.px[i] >= run.img_8.px[j]
                ELSE run.img_8.px[i] <= run.img_8.px[j]

C6_Witness ==
    /\ Shown
    /\ invert
    /\ \E i, j \in DOMAIN run.arr.px :
           run.arr.px[i] < run.arr.px[j] /\ run.img_8.px[i] > run.img_8.px[j]

C8_EmptyImageError ==
    (call = "apply_window" /\ args.img.px = <<>>) => ret.status = "EmptyImageError"

\* C9: to_pil on a raster whose channel count is outside {1, 3} raises
\* nothing and returns an image of one or three channels.
C9_ShapeFallback ==
    (call = "to_pil" /\ ndim(args.img) = 3 /\ args.img.shape[3] \notin {1, 3}) =>
        /\ ret.status = "ok"
        /\ ret.image.bands \in {1, 3}

\* C10, as claimed: for every loaded dataset the default window lies inside
\* the slider bounds, min <= center <= max and 1 <= width <= max - min + 1.
C10_DefaultsInBounds ==
    Shown =>
        /\ run.bounds.center_min <= run.default_center
        /\ run.default_center <= run.bounds.center_max
        /\ run.bounds.width_min <= run.default_width
        /\ run.default_width <= run.bounds.width_max

\* C10, amended: on the percentile-fallback path of default_window the
\* default window lies inside the slider bounds.
C10_FallbackInBounds ==
    (Shown /\ Fallback) =>
        /\ run.bounds.center_min = Q * np_min(run.arr.px)
        /\ run.bounds.center_max = Q * np_max(run.arr.px)
        /\ run.bounds.width_max = Q * (np_max(run.arr.px) - np_min(run.arr.px) + 1)
        /\ run.bounds.center_min <= run.default_center
        /\ run.default_center <= run.bounds.center_max
        /\ Q <= run.default_width
        /\ run.default_width <= run.bounds.width_max

C10_Witness ==
    /\ Shown
    /\ Fallback
    /\ run.bounds.center_min < run.default_center
    /\ run.default_center < run.bounds.center_max
    /\ Q < run.default_width
    /\ run.default_width < run.bounds.width_max

====
